---------------------------- MODULE Spec2Model ----------------------------
(***************************************************************************)
(* Model of packages/database/src/operation.ts: the DBOp descriptor        *)
(* builder (constructor, get, set, del) and the cache synchronizer         *)
(* (updateCache).                                                          *)
(*                                                                         *)
(* Encoding of JavaScript values:                                          *)
(*   - an optional value is a sequence: <<>> is undefined, <<v>> is v;     *)
(*   - a call that throws returns <<>>, one that returns r returns <<r>>;  *)
(*   - a value (string | Buffer | object) is [t |-> type, b |-> bytes];    *)
(*   - a key is [fn |-> the constant or key function of ./constants,       *)
(*               args |-> the discriminators it was applied to].           *)
(***************************************************************************)
EXTENDS Integers, Sequences, FiniteSets, TLC

VARIABLES
    call,   \* the last builder call: [fn, target, value, key]
    op,     \* the descriptor the caller holds: <<>> or <<DBOp>>
    cache,  \* the CacheMap: bucket name -> (key -> Buffer)
    store,  \* the physical key-value store: key -> value
    phys,   \* history: key -> "put" | "del", the last completed physical operation
    old,    \* history: the entry updateCache found under (bucket, key): <<>> or <<v>>
    ret,    \* how the last updateCache ended: "none" | "ok" | "error"
    pc,     \* the caller's position
    n       \* number of descriptors applied so far

vars == <<call, op, cache, store, phys, old, ret, pc, n>>

---------------------------------------------------------------------------
(* Bounds *)

\* longest Buffer value handed to the builder
MaxLen == 3
\* descriptors applied to the cache (and store) in one behaviour
MaxOps == 2

---------------------------------------------------------------------------
(* enum DBTarget *)

FixedTargets ==
    {"Heads", "HeadHeader", "HeadBlock", "CliqueSignerStates", "CliqueVotes",
     "CliqueBlockSigners", "BloomBitsSectionCount", "SnapRoot", "SnapJournal",
     "SnapGenerator", "SnapRecovery", "SnapDisabled", "SnapSyncProgress"}

DerivedTargets ==
    {"HashToNumber", "NumberToHash", "TotalDifficulty", "Body", "Header",
     "Receipts", "TxLookup", "BloomBits", "SnapAccount", "SnapStorage"}

DBTarget == FixedTargets \cup DerivedTargets

(* type DatabaseKey: every field optional *)
Fields ==
    {"blockNumber", "blockHash", "txHash", "bit", "section", "hash",
     "accountHash", "storageHash"}

\* the discriminator values (block numbers, hashes, bit indices, ...)
Ids == {0, 1}

DatabaseKey == [Fields -> {<<>>} \cup {<<i>> : i \in Ids}]

FullKey(i) == [f \in Fields |-> <<i>>]

EmptyKey == [f \in Fields |-> <<>>]

WithoutField(f, i) == [FullKey(i) EXCEPT ![f] = <<>>]

(* values: string | Buffer | object, and undefined *)
Undefined == [t |-> "undefined", b |-> <<>>]

Buf(bytes) == [t |-> "Buffer", b |-> bytes]

Str(bytes) == [t |-> "string", b |-> bytes]

Obj(bytes) == [t |-> "object", b |-> bytes]

IsBuffer(v) == v.t = "Buffer"

UndefStr == "undefined"

---------------------------------------------------------------------------
(* ./constants: the key constants and key functions.  A key function       *)
(* applied to a missing discriminator throws.                              *)

ConstKey(name) == [fn |-> name, args |-> <<>>]

KeyFn(name, args) ==
    IF \E i \in 1 .. Len(args) : args[i] = <<>>
    THEN <<>>
    ELSE <<[fn |-> name, args |-> [i \in 1 .. Len(args) |-> args[i][1]]]>>

hashToNumberKey(hash) == KeyFn("hashToNumberKey", <<hash>>)

numberToHashKey(number) == KeyFn("numberToHashKey", <<number>>)

tdKey(number, hash) == KeyFn("tdKey", <<number, hash>>)

bodyKey(number, hash) == KeyFn("bodyKey", <<number, hash>>)

headerKey(number, hash) == KeyFn("headerKey", <<number, hash>>)

receiptsKey(number, hash) == KeyFn("receiptsKey", <<number, hash>>)

txLookupKey(hash) == KeyFn("txLookupKey", <<hash>>)

bloomBitsKey(bit, section, hash) == KeyFn("bloomBitsKey", <<bit, section, hash>>)

snapAccountKey(accountHash) == KeyFn("snapAccountKey", <<accountHash>>)

snapStorageKey(accountHash, storageHash) ==
    KeyFn("snapStorageKey", <<accountHash, storageHash>>)

---------------------------------------------------------------------------
(* ./compress: compressBytes and its inverse, the sparse-bitset encoding:  *)
(* a bitset of the non-zero bytes followed by the non-zero bytes, kept     *)
(* only when shorter than the data.                                        *)

RECURSIVE Pow2(_)
Pow2(k) == IF k = 0 THEN 1 ELSE 2 * Pow2(k - 1)

Zeros(len) == [i \in 1 .. len |-> 0]

RECURSIVE NonZeroBytes(_)
NonZeroBytes(data) ==
    IF data = <<>> THEN <<>>
    ELSE (IF Head(data) # 0 THEN <<Head(data)>> ELSE <<>>) \o NonZeroBytes(Tail(data))

RECURSIVE BitsetByte(_, _, _)
\* the byte j (from 0) of the bitset of data, summing the bits of positions i .. 8j+7
BitsetByte(data, j, i) ==
    IF i > 8 * j + 7 \/ i >= Len(data) THEN 0
    ELSE (IF data[i + 1] # 0 THEN Pow2(7 - (i % 8)) ELSE 0) + BitsetByte(data, j, i + 1)

NonZeroBitset(data) ==
    [j \in 1 .. ((Len(data) + 7) \div 8) |-> BitsetByte(data, j - 1, 8 * (j - 1))]

RECURSIVE bitsetEncodeBytes(_)
bitsetEncodeBytes(data) ==
    IF Len(data) = 0 THEN <<>>
    ELSE IF Len(data) = 1 THEN (IF data[1] = 0 THEN <<>> ELSE data)
    ELSE IF NonZeroBytes(data) = <<>> THEN <<>>
    ELSE bitsetEncodeBytes(NonZeroBitset(data)) \o NonZeroBytes(data)

compressBytes(data) ==
    LET out == bitsetEncodeBytes(data)
    IN  IF Len(out) < Len(data) THEN out ELSE data

BitSet(bitset, i) == (bitset[(i \div 8) + 1] \div Pow2(7 - (i % 8))) % 2 = 1

RECURSIVE Distribute(_, _, _, _, _)
\* pushes data[ptr+1 ..] into the slots of decomp the bitset marks, from bit i on;
\* <<>> when the data is malformed, else <<[out, ptr]>>
Distribute(bitset, data, decomp, i, ptr) ==
    IF i >= 8 * Len(bitset) THEN <<[out |-> decomp, ptr |-> ptr]>>
    ELSE IF ~BitSet(bitset, i) THEN Distribute(bitset, data, decomp, i + 1, ptr)
    ELSE IF ptr >= Len(data) \/ i >= Len(decomp) THEN <<>>
    ELSE IF data[ptr + 1] = 0 THEN <<>>
    ELSE Distribute(bitset, data, [decomp EXCEPT ![i + 1] = data[ptr + 1]], i + 1, ptr + 1)

RECURSIVE bitsetDecodePartialBytes(_, _)
bitsetDecodePartialBytes(data, target) ==
    IF target = 0 THEN <<[out |-> <<>>, ptr |-> 0]>>
    ELSE IF Len(data) = 0 THEN <<[out |-> Zeros(target), ptr |-> 0]>>
    ELSE IF target = 1
         THEN <<[out |-> <<data[1]>>, ptr |-> IF data[1] # 0 THEN 1 ELSE 0]>>
    ELSE LET sub == bitsetDecodePartialBytes(data, (target + 7) \div 8)
         IN  IF sub = <<>> THEN <<>>
             ELSE Distribute(sub[1].out, data, Zeros(target), 0, sub[1].ptr)

\* <<>> on an error, else <<bytes>>
decompressBytes(data, target) ==
    IF Len(data) > target THEN <<>>
    ELSE IF Len(data) = target THEN <<data>>
    ELSE LET r == bitsetDecodePartialBytes(data, target)
         IN  IF r = <<>> \/ r[1].ptr # Len(data) THEN <<>> ELSE <<r[1].out>>

---------------------------------------------------------------------------
(* class DBOp *)

\* mutant: the default value encoding is 'json'
BaseDBOp_JsonDefault(operationTarget) ==
    [operationTarget |-> operationTarget,
     key             |-> ConstKey(""),
     keyEncoding     |-> "binary",
     valueEncoding   |-> "json",
     type            |-> UndefStr,
     value           |-> Undefined,
     cacheString     |-> UndefStr]

\* this.baseDBOp after line 96, with this.operationTarget and this.cacheString
BaseDBOp(operationTarget) ==
    [operationTarget |-> operationTarget,
     key             |-> ConstKey(""),
     keyEncoding     |-> "binary",
     valueEncoding   |-> "binary",
     type            |-> UndefStr,
     value           |-> Undefined,
     cacheString     |-> UndefStr]

\* a case that sets the key to a constant
Fixed(base, name) == <<[base EXCEPT !.key = ConstKey(name)]>>

\* a case that derives the key; k is <<>> when the key function threw
Derived(base, k, cacheString) ==
    IF k = <<>> THEN <<>>
    ELSE <<[base EXCEPT !.key = k[1], !.cacheString = cacheString]>>

\* key!.f: throws when key is undefined (key = <<>>); callers test that first
Field(key, f) == key[1][f]

\* the switch of the constructor for the derived-key targets
DerivedCase(base, t, key) ==
    CASE t = "HashToNumber" ->
            Derived(base, hashToNumberKey(Field(key, "blockHash")), "hashToNumber")
      [] t = "NumberToHash" ->
            Derived(base, numberToHashKey(Field(key, "blockNumber")), "numberToHash")
      [] t = "TotalDifficulty" ->
            Derived(base, tdKey(Field(key, "blockNumber"), Field(key, "blockHash")), "td")
      [] t = "Body" ->
            Derived(base, bodyKey(Field(key, "blockNumber"), Field(key, "blockHash")), "body")
      [] t = "Header" ->
            Derived(base, headerKey(Field(key, "blockNumber"), Field(key, "blockHash")),
                    "header")
      [] t = "Receipts" ->
            Derived(base, receiptsKey(Field(key, "blockNumber"), Field(key, "blockHash")),
                    "receipts")
      [] t = "TxLookup" ->
            Derived(base, txLookupKey(Field(key, "txHash")), "txLookup")
      [] t = "BloomBits" ->
            Derived(base, bloomBitsKey(Field(key, "bit"), Field(key, "section"),
                                       Field(key, "hash")), UndefStr)
      [] t = "SnapAccount" ->
            Derived(base, snapAccountKey(Field(key, "accountHash")), "snapAccount")
      [] t = "SnapStorage" ->
            Derived(base, snapStorageKey(Field(key, "accountHash"),
                                         Field(key, "storageHash")), "snapStorage")

\* the switch of the constructor for the fixed-key targets
FixedCase(base, t) ==
    CASE t = "Heads" -> Fixed([base EXCEPT !.valueEncoding = "json"], "HEADS_KEY")
      [] t = "HeadHeader" -> Fixed(base, "HEAD_HEADER_KEY")
      [] t = "HeadBlock" -> Fixed(base, "HEAD_BLOCK_KEY")
      [] t = "CliqueSignerStates" -> Fixed(base, "CLIQUE_SIGNER_STATES_KEY")
      [] t = "CliqueVotes" -> Fixed(base, "CLIQUE_VOTES_KEY")
      [] t = "CliqueBlockSigners" -> Fixed(base, "CLIQUE_BLOCK_SIGNERS_KEY")
      [] t = "BloomBitsSectionCount" ->
            Fixed([base EXCEPT !.keyEncoding = "none", !.valueEncoding = "none"],
                  "BLOOM_BITS_SECTION_COUNT")
      [] t = "SnapRoot" -> Fixed(base, "SNAP_ROOT_KEY")
      [] t = "SnapJournal" -> Fixed(base, "SNAP_JOURNAL_KEY")
      [] t = "SnapGenerator" -> Fixed(base, "SNAP_GENERATOR_KEY")
      [] t = "SnapRecovery" -> Fixed(base, "SNAP_RECOVERY_KEY")
      [] t = "SnapDisabled" -> Fixed(base, "SNAP_DISABLED_KEY")
      [] t = "SnapSyncProgress" -> Fixed(base, "SNAP_SYNC_PROGRESS_KEY")

\* mutant: a derived-key case guarded by `if (key)`: an omitted bundle leaves key ''
DBOp_OmittedKeyFallsThrough(operationTarget, key) ==
    IF operationTarget \in FixedTargets
    THEN FixedCase(BaseDBOp(operationTarget), operationTarget)
    ELSE IF key = <<>> THEN <<BaseDBOp(operationTarget)>>
    ELSE DerivedCase(BaseDBOp(operationTarget), operationTarget, key)

\* mutant: the bundle is dereferenced before the switch, for every target
DBOp_DereferencesKeyFirst(operationTarget, key) ==
    IF key = <<>> THEN <<>>
    ELSE IF operationTarget \in FixedTargets
    THEN FixedCase(BaseDBOp(operationTarget), operationTarget)
    ELSE DerivedCase(BaseDBOp(operationTarget), operationTarget, key)

\* new DBOp(operationTarget, key): <<>> when it throws, else <<the DBOp>>
DBOp(operationTarget, key) ==
    IF operationTarget \in FixedTargets
    THEN FixedCase(BaseDBOp(operationTarget), operationTarget)
    ELSE IF key = <<>> THEN <<>>
    ELSE DerivedCase(BaseDBOp(operationTarget), operationTarget, key)

get(operationTarget, key) == DBOp(operationTarget, key)

\* mutant: the BloomBits value is not compressed
set_NoCompress(operationTarget, value, key) ==
    LET dbOperation == DBOp(operationTarget, key)
    IN  IF dbOperation = <<>> THEN <<>>
        ELSE <<[dbOperation[1] EXCEPT !.type = "put", !.value = value]>>

set(operationTarget, value, key) ==
    LET dbOperation == DBOp(operationTarget, key)
    IN  IF dbOperation = <<>> THEN <<>>
        ELSE IF operationTarget = "BloomBits"
             THEN <<[dbOperation[1] EXCEPT !.type = "put",
                                           !.value = Buf(compressBytes(value.b))]>>
             ELSE <<[dbOperation[1] EXCEPT !.type = "put", !.value = value]>>

del(operationTarget, key) ==
    LET dbOperation == DBOp(operationTarget, key)
    IN  IF dbOperation = <<>> THEN <<>>
        ELSE <<[dbOperation[1] EXCEPT !.type = "del"]>>

---------------------------------------------------------------------------
(* ./manager: the CacheMap, a bucket name -> cache object; a cache maps    *)
(* a key to a Buffer and supports get, set and del.                        *)

EmptyMap == [k \in {} |-> Undefined]

CacheGet(m, key) == IF key \in DOMAIN m THEN <<m[key]>> ELSE <<>>

CacheSet(m, key, value) ==
    [k \in DOMAIN m \cup {key} |-> IF k = key THEN value ELSE m[k]]

CacheDel(m, key) == [k \in DOMAIN m \ {key} |-> m[k]]

\* the branches of updateCache, for its mutants
PutBranch(this, cacheMap) ==
    [cacheMap |->
         IF IsBuffer(this.value)
         THEN [cacheMap EXCEPT ![this.cacheString] = CacheSet(@, this.key, this.value)]
         ELSE cacheMap,
     ret |-> "ok"]

DelBranch(this, cacheMap) ==
    [cacheMap |-> [cacheMap EXCEPT ![this.cacheString] = CacheDel(@, this.key)],
     ret |-> "ok"]

Bucketed(this, cacheMap) ==
    this.cacheString # UndefStr /\ this.cacheString \in DOMAIN cacheMap

\* mutant: the Buffer test is inverted, a Buffer value is not stored
updateCache_SkipsBuffer(this, cacheMap) ==
    IF ~Bucketed(this, cacheMap) THEN [cacheMap |-> cacheMap, ret |-> "ok"]
    ELSE IF this.type = "put" THEN [cacheMap |-> cacheMap, ret |-> "ok"]
    ELSE IF this.type = "del" THEN DelBranch(this, cacheMap)
    ELSE [cacheMap |-> cacheMap, ret |-> "error"]

\* mutant: 'del' leaves the entry in place
updateCache_DelKeeps(this, cacheMap) ==
    IF ~Bucketed(this, cacheMap) THEN [cacheMap |-> cacheMap, ret |-> "ok"]
    ELSE IF this.type = "put" THEN PutBranch(this, cacheMap)
    ELSE IF this.type = "del" THEN [cacheMap |-> cacheMap, ret |-> "ok"]
    ELSE [cacheMap |-> cacheMap, ret |-> "error"]

\* mutant: 'del' clears the whole bucket
updateCache_DelClears(this, cacheMap) ==
    IF ~Bucketed(this, cacheMap) THEN [cacheMap |-> cacheMap, ret |-> "ok"]
    ELSE IF this.type = "put" THEN PutBranch(this, cacheMap)
    ELSE IF this.type = "del"
         THEN [cacheMap |-> [cacheMap EXCEPT ![this.cacheString] = EmptyMap],
               ret |-> "ok"]
    ELSE [cacheMap |-> cacheMap, ret |-> "error"]

\* mutant: the kind is tested before the bucket
updateCache_KindFirst(this, cacheMap) ==
    IF this.type # "put" /\ this.type # "del" THEN [cacheMap |-> cacheMap, ret |-> "error"]
    ELSE IF ~Bucketed(this, cacheMap) THEN [cacheMap |-> cacheMap, ret |-> "ok"]
    ELSE IF this.type = "put" THEN PutBranch(this, cacheMap)
    ELSE DelBranch(this, cacheMap)

\* mutant: any other kind is ignored
updateCache_NeverThrows(this, cacheMap) ==
    IF ~Bucketed(this, cacheMap) THEN [cacheMap |-> cacheMap, ret |-> "ok"]
    ELSE IF this.type = "put" THEN PutBranch(this, cacheMap)
    ELSE IF this.type = "del" THEN DelBranch(this, cacheMap)
    ELSE [cacheMap |-> cacheMap, ret |-> "ok"]

\* updateCache(cacheMap) on the DBOp this: the CacheMap afterwards, and whether
\* the call returned ("ok") or threw 'unsupported db operation on cache' ("error")
updateCache(this, cacheMap) ==
    IF this.cacheString # UndefStr /\ this.cacheString \in DOMAIN cacheMap
    THEN IF this.type = "put"
         THEN [cacheMap |->
                   IF IsBuffer(this.value)
                   THEN [cacheMap EXCEPT
                            ![this.cacheString] = CacheSet(@, this.key, this.value)]
                   ELSE cacheMap,
               ret |-> "ok"]
         ELSE IF this.type = "del"
         THEN [cacheMap |->
                   [cacheMap EXCEPT ![this.cacheString] = CacheDel(@, this.key)],
               ret |-> "ok"]
         ELSE [cacheMap |-> cacheMap, ret |-> "error"]
    ELSE [cacheMap |-> cacheMap, ret |-> "ok"]

---------------------------------------------------------------------------
(* The physical store: put keeps the descriptor's value under its key,     *)
(* del removes the key.                                                    *)

StoreApply(db, this) ==
    IF this.type = "put" THEN CacheSet(db, this.key, this.value)
    ELSE IF this.type = "del" THEN CacheDel(db, this.key)
    ELSE db

---------------------------------------------------------------------------
(* Inputs *)

BucketNames ==
    {"hashToNumber", "numberToHash", "td", "body", "header", "receipts",
     "txLookup", "snapAccount", "snapStorage"}

\* the cache containers: every bucket configured, none, some
CacheConfigs == {BucketNames, {}, {"header", "numberToHash"}}

\* the values written through the cache: two Buffers, a string, an object
CacheValues == {Buf(<<1>>), Buf(<<2>>), Str(<<115>>), Obj(<<123, 125>>)}

\* line 223 casts the BloomBits value to a Buffer
ValuesFor(t, values) == IF t = "BloomBits" THEN {v \in values : IsBuffer(v)} ELSE values

\* the discriminator bundles of the cache's callers: complete ones
KeysFor(t) == IF t \in FixedTargets THEN {<<>>} ELSE {<<FullKey(i)>> : i \in Ids}

\* a kind that is neither 'put' nor 'del' nor undefined
OtherTypes == {"batch"}

RECURSIVE SeqsUpTo(_, _)
SeqsUpTo(S, len) ==
    IF len = 0 THEN {<<>>}
    ELSE LET shorter == SeqsUpTo(S, len - 1)
         IN  shorter \cup {Append(q, x) : q \in shorter, x \in S}

ByteVals == {0, 1, 255}

\* the values handed to the builder alone
BuildValues ==
    {Buf(q) : q \in SeqsUpTo(ByteVals, MaxLen)} \cup {Str(<<115>>), Obj(<<123, 125>>)}

\* the bundles handed to the builder alone: omitted, empty, complete, and
\* complete but for one field
BuildKeys ==
    {<<>>, <<EmptyKey>>} \cup {<<FullKey(i)>> : i \in Ids}
        \cup {<<WithoutField(f, 0)>> : f \in Fields}

NoCall == [fn |-> "none", target |-> "none", value |-> Undefined, key |-> <<>>]

Call(fn, t, value, key) == [fn |-> fn, target |-> t, value |-> value, key |-> key]

\* the arguments of one builder call
BuildCall(c) ==
    \E fn \in {"get", "set", "del"}, t \in DBTarget, key \in BuildKeys :
        \E v \in (IF fn = "set" THEN ValuesFor(t, BuildValues) ELSE {Undefined}) :
            c = Call(fn, t, v, key)

---------------------------------------------------------------------------
(* The builder alone: one call of get, set or del on drawn arguments *)

InitBuild ==
    /\ BuildCall(call)
    /\ op = <<>>
    /\ cache = [b \in BucketNames |-> EmptyMap]
    /\ store = EmptyMap
    /\ phys = EmptyMap
    /\ old = <<>>
    /\ ret = "none"
    /\ pc = "call"
    /\ n = 0

Returned(result) ==
    /\ op' = result
    /\ pc' = IF result = <<>> THEN "thrown" ELSE "returned"
    /\ UNCHANGED <<call, cache, store, phys, old, ret, n>>

CallGet ==
    /\ pc = "call"
    /\ call.fn = "get"
    /\ Returned(get(call.target, call.key))

CallSet ==
    /\ pc = "call"
    /\ call.fn = "set"
    /\ Returned(set(call.target, call.value, call.key))

CallDel ==
    /\ pc = "call"
    /\ call.fn = "del"
    /\ Returned(del(call.target, call.key))

NextBuild == CallGet \/ CallSet \/ CallDel

SpecBuild == InitBuild /\ [][NextBuild]_vars

---------------------------------------------------------------------------
(* The caller of the cache synchronizer: builds a descriptor, then calls   *)
(* updateCache on it                                                       *)

Init ==
    /\ call = NoCall
    /\ op = <<>>
    /\ cache \in {[b \in c |-> EmptyMap] : c \in CacheConfigs}
    /\ store = EmptyMap
    /\ phys = EmptyMap
    /\ old = <<>>
    /\ ret = "none"
    /\ pc = "idle"
    /\ n = 0

\* the caller may build the next descriptor
CanBuild == pc = "idle" /\ n < MaxOps

GetOp(t, key) ==
    /\ CanBuild
    /\ call' = Call("get", t, Undefined, key)
    /\ op' = get(t, key)
    /\ pc' = IF op' = <<>> THEN "idle" ELSE "built"
    /\ UNCHANGED <<cache, store, phys, old, ret, n>>

SetOp(t, value, key) ==
    /\ CanBuild
    /\ call' = Call("set", t, value, key)
    /\ op' = set(t, value, key)
    /\ pc' = IF op' = <<>> THEN "idle" ELSE "built"
    /\ UNCHANGED <<cache, store, phys, old, ret, n>>

DelOp(t, key) ==
    /\ CanBuild
    /\ call' = Call("del", t, Undefined, key)
    /\ op' = del(t, key)
    /\ pc' = IF op' = <<>> THEN "idle" ELSE "built"
    /\ UNCHANGED <<cache, store, phys, old, ret, n>>

\* the caller drops the descriptor it has applied
Discard ==
    /\ pc = "applied"
    /\ call' = NoCall
    /\ op' = <<>>
    /\ old' = <<>>
    /\ ret' = "none"
    /\ pc' = "idle"
    /\ UNCHANGED <<cache, store, phys, n>>

\* the caller assigns baseDBOp.type, a public field
AssignType(type) ==
    /\ pc = "built"
    /\ op[1].type # type
    /\ op' = <<[op[1] EXCEPT !.type = type]>>
    /\ call' = [call EXCEPT !.fn = "assign"]
    /\ UNCHANGED <<cache, store, phys, old, ret, pc, n>>

\* the entry of the descriptor's bucket under its key
Entry(this, cacheMap) ==
    IF this.cacheString \in DOMAIN cacheMap
    THEN CacheGet(cacheMap[this.cacheString], this.key)
    ELSE <<>>

UpdateCache ==
    /\ pc = "built"
    /\ LET r == updateCache(op[1], cache)
       IN  /\ cache' = r.cacheMap
           /\ ret' = r.ret
    /\ old' = Entry(op[1], cache)
    /\ pc' = "applied"
    /\ n' = n + 1
    /\ UNCHANGED <<call, op, store, phys>>

Next ==
    \/ \E t \in DBTarget : \E key \in KeysFor(t) : GetOp(t, key)
    \/ \E t \in DBTarget : \E key \in KeysFor(t), v \in ValuesFor(t, CacheValues) :
          SetOp(t, v, key)
    \/ \E t \in DBTarget : \E key \in KeysFor(t) : DelOp(t, key)
    \/ \E type \in OtherTypes : AssignType(type)
    \/ UpdateCache
    \/ Discard

Spec == Init /\ [][Next]_vars

---------------------------------------------------------------------------
(* The disciplined caller: applies each write or delete descriptor to the  *)
(* store and then to the cache, as one step                                *)

Commit ==
    /\ pc = "built"
    /\ store' = StoreApply(store, op[1])
    /\ phys' = CacheSet(phys, op[1].key, op[1].type)
    /\ LET r == updateCache(op[1], cache)
       IN  /\ cache' = r.cacheMap
           /\ ret' = r.ret
    /\ old' = Entry(op[1], cache)
    /\ pc' = "applied"
    /\ n' = n + 1
    /\ UNCHANGED <<call, op>>

\* the targets the disciplined caller writes: three cached ones, two of them on
\* the same discriminators, one with a fixed key and a json value, and BloomBits
CommitTargets == {"Header", "TotalDifficulty", "NumberToHash", "Heads", "BloomBits"}

NextCommit ==
    \/ \E t \in CommitTargets : \E key \in KeysFor(t), v \in ValuesFor(t, CacheValues) :
          SetOp(t, v, key)
    \/ \E t \in CommitTargets : \E key \in KeysFor(t) : DelOp(t, key)
    \/ Commit
    \/ Discard

SpecCommit == Init /\ [][NextCommit]_vars

---------------------------------------------------------------------------
(* The claims.  The tables below restate the specification's section 3.    *)

\* the cache bucket the specification gives a target ("undefined": none)
BucketOf(t) ==
    CASE t = "HashToNumber" -> "hashToNumber"
      [] t = "NumberToHash" -> "numberToHash"
      [] t = "TotalDifficulty" -> "td"
      [] t = "Body" -> "body"
      [] t = "Header" -> "header"
      [] t = "Receipts" -> "receipts"
      [] t = "TxLookup" -> "txLookup"
      [] t = "SnapAccount" -> "snapAccount"
      [] t = "SnapStorage" -> "snapStorage"
      [] OTHER -> "undefined"

\* the discriminators the specification requires for a target
Required(t) ==
    CASE t = "HashToNumber" -> {"blockHash"}
      [] t = "NumberToHash" -> {"blockNumber"}
      [] t \in {"TotalDifficulty", "Body", "Header", "Receipts"} ->
            {"blockNumber", "blockHash"}
      [] t = "TxLookup" -> {"txHash"}
      [] t = "BloomBits" -> {"bit", "section", "hash"}
      [] t = "SnapAccount" -> {"accountHash"}
      [] t = "SnapStorage" -> {"accountHash", "storageHash"}
      [] OTHER -> {}

\* a step in which updateCache runs on the descriptor held
UpdateStep == pc = "built" /\ pc' = "applied"

\* the call has ended (the builder alone)
Ended == pc \in {"returned", "thrown"}

\* the bucket of the held descriptor's target is configured in the cache
Configured == BucketOf(op[1].operationTarget) \in DOMAIN cache

\* C1: after set(T, V, D).updateCache(cache), with V a Buffer and T's bucket B
\* configured, cache[B].get(key) is V; after del(T, D).updateCache(cache), also
\* right after such a set, cache[B] has no entry for the key.
C1_CacheCoherence ==
    (pc = "applied" /\ Configured) =>
        /\ (call.fn = "set" /\ IsBuffer(call.value)) =>
              CacheGet(cache[BucketOf(call.target)], op[1].key) = <<call.value>>
        /\ call.fn = "del" =>
              CacheGet(cache[BucketOf(call.target)], op[1].key) = <<>>

\* a delete has evicted an entry an earlier set had stored
C1_Witness ==
    /\ pc = "applied"
    /\ Configured
    /\ call.fn = "del"
    /\ old # <<>>
    /\ IsBuffer(old[1])
    /\ op[1].key \notin DOMAIN cache[BucketOf(call.target)]

\* C2: under the disciplined caller, every key a bucket holds has been
\* physically written, and its last completed physical operation is not a delete.
C2_NoPhantomNoStale ==
    \A b \in DOMAIN cache : \A k \in DOMAIN cache[b] :
        k \in DOMAIN phys /\ phys[k] = "put"

\* a committed delete of a key that was cached
C2_Witness ==
    /\ pc = "applied"
    /\ call.fn = "del"
    /\ old # <<>>
    /\ op[1].key \in DOMAIN phys
    /\ phys[op[1].key] = "del"
    /\ op[1].key \notin DOMAIN store
    /\ Entry(op[1], cache) = <<>>

\* C3 (as claimed): under the disciplined caller, whenever a bucket holds an
\* entry for key k, the store holds k with the same bytes.
C3_Mirror ==
    \A b \in DOMAIN cache : \A k \in DOMAIN cache[b] :
        k \in DOMAIN store /\ store[k].b = cache[b][k].b

C5_AlwaysFails ==
    (pc = "applied" /\ op[1].type \notin {"put", "del"}) => ret = "error"

\* C5 (amended): updateCache on a descriptor whose kind is neither write nor
\* delete fails exactly when the target's bucket is configured in the container,
\* returns without error otherwise, and leaves every bucket unchanged either way.
C5_FailsWhenBucketed ==
    [][(UpdateStep /\ op[1].type \notin {"put", "del"}) =>
          /\ ret' = IF Configured THEN "error" ELSE "ok"
          /\ cache' = cache]_vars

\* updateCache has thrown on a descriptor built by get, over a cache that holds entries
C5_Witness ==
    /\ pc = "applied"
    /\ call.fn = "get"
    /\ ret = "error"
    /\ cache[BucketOf(call.target)] # EmptyMap

\* C6: the targets without a bucket are the thirteen fixed-key ones and
\* BloomBits; updateCache on a descriptor whose target has no bucket, or whose
\* bucket is not configured, returns without error and changes no bucket,
\* whatever the kind and the value.
C6_NoBucketNoOp ==
    [][UpdateStep =>
          /\ (op[1].cacheString = UndefStr) <=>
                 (op[1].operationTarget \in FixedTargets \cup {"BloomBits"})
          /\ (op[1].cacheString = UndefStr \/ op[1].cacheString \notin DOMAIN cache) =>
                 (cache' = cache /\ ret' = "ok")]_vars

\* updateCache has returned from a descriptor of an unrecognized kind whose
\* bucket is not configured, over a cache that holds entries
C6_Witness ==
    /\ pc = "applied"
    /\ ret = "ok"
    /\ op[1].type \in OtherTypes
    /\ op[1].cacheString # UndefStr
    /\ op[1].cacheString \notin DOMAIN cache
    /\ \E b \in DOMAIN cache : cache[b] # EmptyMap

\* C7: set compresses the value for BloomBits, and decompressing it to the
\* length of V gives V; for every other target the value is V; get and del
\* carry no value.
C7_ValueTransform ==
    pc = "returned" =>
        /\ (call.fn = "set" /\ call.target = "BloomBits") =>
              /\ op[1].value = Buf(compressBytes(call.value.b))
              /\ decompressBytes(op[1].value.b, Len(call.value.b)) = <<call.value.b>>
        /\ (call.fn = "set" /\ call.target # "BloomBits") => op[1].value = call.value
        /\ call.fn \in {"get", "del"} => op[1].value = Undefined

\* a BloomBits value that the compression shortened
C7_Witness ==
    /\ pc = "returned"
    /\ call.fn = "set"
    /\ call.target = "BloomBits"
    /\ Len(op[1].value.b) < Len(call.value.b)
    /\ Len(op[1].value.b) > 0

\* C8: get, set and del on a fixed-key target never throw, and the key is the
\* target's constant, the one built with no bundle, whatever bundle is passed.
C8_FixedKeyStable ==
    (Ended /\ call.target \in FixedTargets) =>
        /\ pc = "returned"
        /\ op[1].key.args = <<>>
        /\ op[1].key = DBOp(call.target, <<>>)[1].key

\* a write to a fixed-key target with a complete bundle
C8_Witness ==
    /\ pc = "returned"
    /\ call.fn = "set"
    /\ call.target \in FixedTargets
    /\ call.key = <<FullKey(1)>>

\* C9: the encodings and the bucket depend on the target alone: none/none for
\* BloomBitsSectionCount, binary/json for Heads, binary/binary otherwise; the
\* bucket is the one of the table; no two targets share a bucket.
C9_EncodingsAndBucket ==
    pc = "returned" =>
          /\ op[1].keyEncoding =
                 IF call.target = "BloomBitsSectionCount" THEN "none" ELSE "binary"
          /\ op[1].valueEncoding =
                 IF call.target = "BloomBitsSectionCount" THEN "none"
                 ELSE IF call.target = "Heads" THEN "json" ELSE "binary"
          /\ op[1].cacheString = BucketOf(call.target)
          /\ op[1].operationTarget = call.target
          /\ \A t \in DBTarget :
                (t # call.target /\ op[1].cacheString # UndefStr) =>
                    DBOp(t, <<FullKey(0)>>)[1].cacheString # op[1].cacheString

\* a write of a Buffer to BloomBitsSectionCount with a bundle
C9_Witness ==
    /\ pc = "returned"
    /\ call.fn = "set"
    /\ call.target = "BloomBitsSectionCount"
    /\ call.key # <<>>
    /\ IsBuffer(call.value)

=============================================================================
